---- MODULE Spec2Model ----
(***************************************************************************)
(* A model of perfect_guess.py: the validated input reader, one game       *)
(* session (play_game), the JSON score store (safe_load_scores and         *)
(* safe_save_scores) and the interactive loop (run_interactive).           *)
(*                                                                         *)
(* A token typed by the player is a sequence of one-character strings.     *)
(* An Optional[int] is a sequence: << >> is None, <<n>> is the integer n.   *)
(* A dict is a sequence of records [k |-> key, v |-> value] with distinct  *)
(* keys, in insertion order.  The text of the score file is a sequence of  *)
(* JSON lexemes (the chunks json.dump writes, whitespace left out).        *)
(***************************************************************************)
EXTENDS Integers, Sequences, FiniteSets, TLC

VARIABLES
    caller,         \* the entry point being driven: main, a direct play_game call, or direct store calls
    pc,             \* where the control is: the prompt waited at, or the step of the save
    file,           \* the score file: << >> when it does not exist, <<text>> when it does
    scores,         \* best_score / scores, the in-memory dict of run_interactive
    level,          \* level: [name, min, max, attempts] of the session
    difficulty_key, \* difficulty_key of the session
    min_v,          \* min_v, read at the custom minimum prompt
    secret,         \* secret_number of play_game
    attempts,       \* attempts of play_game
    guess,          \* guess of play_game: what get_valid_number returned last, None before
    won,            \* the second component of play_game's result
    prompts,        \* how many times this session called input_fn for a guess
    draws,          \* how many times rng.randint was called in this run
    saved,          \* how the last safe_save_scores call ended: "none", "ok" or "failed"
    out,            \* what the last step passed to output_fn, in order
    seed,           \* seed of run_interactive: None, or the integer of --seed
    rng,            \* rng: the state of the random source shared by the sessions
    minimal,        \* the minimal script run beside play_game: randNo, a, guesses
    player          \* the interval a searching player still holds possible

vars == <<caller, pc, file, scores, level, difficulty_key, min_v, secret,
          attempts, guess, won, prompts, draws, saved, out, seed, rng, minimal,
          player>>

\* what no step of perfect_guess.py changes: who drives it, the seed it was
\* given, and the two parties that run beside play_game
fixed == <<caller, seed, minimal, player>>

(***************************************************************************)
(* Bounds of the model.                                                    *)
(***************************************************************************)
\* sessions started in one run
MaxSessions == 1
\* validated guesses in a session that has no attempt limit
MaxAttempts == 2
\* rejected tokens (non-integer or out of range) in one session
MaxRejects == 1
\* the largest attempt limit a direct play_game call is given
MaxLimit == 3
\* the largest bound of the range a direct play_game call is given
MaxRange == 3
\* the largest seed a run is given
MaxSeed == 1

None == << >>
Some(x) == <<x>>

(***************************************************************************)
(* Text: str.strip, str.lower, int(str) and str(int).                      *)
(***************************************************************************)
Whitespace == {" ", "\t"}
Digits == <<"0", "1", "2", "3", "4", "5", "6", "7", "8", "9">>
DigitSet == {Digits[i] : i \in 1..10}
DigitVal(c) == (CHOOSE i \in 1..10 : Digits[i] = c) - 1

Upper == <<"A","B","C","D","E","F","G","H","I","J","K","L","M",
           "N","O","P","Q","R","S","T","U","V","W","X","Y","Z">>
Lower == <<"a","b","c","d","e","f","g","h","i","j","k","l","m",
           "n","o","p","q","r","s","t","u","v","w","x","y","z">>

LowerChar(c) ==
    IF \E i \in 1..26 : Upper[i] = c
    THEN Lower[CHOOSE i \in 1..26 : Upper[i] = c]
    ELSE c

\* str.lower()
StrLower(s) == [i \in 1..Len(s) |-> LowerChar(s[i])]

RECURSIVE LStrip(_)
LStrip(s) ==
    IF s # << >> /\ Head(s) \in Whitespace THEN LStrip(Tail(s)) ELSE s

RECURSIVE RStrip(_)
RStrip(s) ==
    IF s # << >> /\ s[Len(s)] \in Whitespace
    THEN RStrip(SubSeq(s, 1, Len(s) - 1))
    ELSE s

\* str.strip()
Strip(s) == RStrip(LStrip(s))

\* the digits of an integer literal: digits, single underscores between them
IsDigitString(s) ==
    /\ s # << >>
    /\ \A i \in 1..Len(s) : s[i] \in DigitSet \cup {"_"}
    /\ s[1] \in DigitSet
    /\ s[Len(s)] \in DigitSet
    /\ \A i \in 1..(Len(s) - 1) : ~(s[i] = "_" /\ s[i + 1] = "_")

RECURSIVE DigitsValue(_)
DigitsValue(s) ==
    IF s = << >> THEN 0
    ELSE IF s[Len(s)] = "_" THEN DigitsValue(SubSeq(s, 1, Len(s) - 1))
    ELSE 10 * DigitsValue(SubSeq(s, 1, Len(s) - 1)) + DigitVal(s[Len(s)])

\* int(s) of a str: Some(value), or None where Python raises ValueError
ParseInt(s) ==
    LET t == Strip(s)
        signed == t # << >> /\ t[1] \in {"+", "-"}
        body == IF signed THEN Tail(t) ELSE t
    IN  IF ~IsDigitString(body) THEN None
        ELSE IF signed /\ t[1] = "-" THEN Some(0 - DigitsValue(body))
        ELSE Some(DigitsValue(body))

RECURSIVE NatToStr(_)
NatToStr(n) ==
    IF n < 10 THEN <<Digits[n + 1]>>
    ELSE NatToStr(n \div 10) \o <<Digits[(n % 10) + 1]>>

\* str(n) of an int
IntToStr(n) == IF n < 0 THEN <<"-">> \o NatToStr(0 - n) ELSE NatToStr(n)

(***************************************************************************)
(* dict: get, item assignment.                                             *)
(***************************************************************************)
Keys(d) == {d[i].k : i \in 1..Len(d)}

\* d.get(k)
DictGet(d, k) ==
    IF k \in Keys(d)
    THEN Some(d[CHOOSE i \in 1..Len(d) : d[i].k = k].v)
    ELSE None

\* d[k] = v
DictSet(d, k, v) ==
    IF k \in Keys(d)
    THEN [i \in 1..Len(d) |-> IF d[i].k = k THEN [k |-> k, v |-> v] ELSE d[i]]
    ELSE Append(d, [k |-> k, v |-> v])

\* two dicts are equal when they hold the same items, whatever the order
DictEq(d, e) == {d[i] : i \in 1..Len(d)} = {e[i] : i \in 1..Len(e)}

(***************************************************************************)
(* JSON.  A lexeme is a record [t, s, n]: t its kind, s the characters of  *)
(* a string, n the integer of an int literal or the integer part of a      *)
(* float literal.                                                          *)
(***************************************************************************)
Lex(t, s, n) == [t |-> t, s |-> s, n |-> n]
LBrace == Lex("{", << >>, 0)
RBrace == Lex("}", << >>, 0)
Colon == Lex(":", << >>, 0)
Comma == Lex(",", << >>, 0)
JStr(s) == Lex("str", s, 0)
JInt(n) == Lex("int", << >>, n)
\* a float literal with a fraction, n its integer part (3.7 is JFloat(3))
JFloat(n) == Lex("float", << >>, n)
JNaN == Lex("nan", << >>, 0)
JTrue == Lex("true", << >>, 0)
JFalse == Lex("false", << >>, 0)
JNull == Lex("null", << >>, 0)
\* an array, taken as one lexeme
JList == Lex("list", << >>, 0)

IsJsonValue(x) ==
    x.t \in {"str", "int", "float", "nan", "true", "false", "null", "list"}

RECURSIVE DumpItems(_)
DumpItems(d) ==
    IF d = << >> THEN << >>
    ELSE (IF Len(d) > 1 THEN DumpItems(SubSeq(d, 1, Len(d) - 1)) \o <<Comma>>
          ELSE << >>)
         \o <<JStr(d[Len(d)].k), Colon, JInt(d[Len(d)].v)>>

\* a dump that leaves the object open
JsonDump_Unclosed(d) == <<LBrace>> \o DumpItems(d)

\* json.dump(scores, fh, indent=2): the chunks written, in order
JsonDump(d) == <<LBrace>> \o DumpItems(d) \o <<RBrace>>

\* the text between the braces is key : value (, key : value)*
WellFormedItems(body) ==
    /\ Len(body) % 4 = 3
    /\ \A i \in 1..Len(body) :
          CASE i % 4 = 1 -> body[i].t = "str"
            [] i % 4 = 2 -> body[i] = Colon
            [] i % 4 = 3 -> IsJsonValue(body[i])
            [] OTHER     -> body[i] = Comma

RECURSIVE ItemsOf(_)
ItemsOf(body) ==
    IF Len(body) < 3 THEN << >>
    ELSE DictSet(ItemsOf(SubSeq(body, 1, Len(body) - 4)),
                 body[Len(body) - 2].s, body[Len(body)])

\* json.load(fh): [kind |-> "error"] where it raises, [kind |-> "object"] with
\* the dict of the object (a repeated key keeps its last value), or
\* [kind |-> "other"] for a value that is no object
JsonLoad(text) ==
    LET body == SubSeq(text, 2, Len(text) - 1)
    IN  IF Len(text) = 1 /\ IsJsonValue(text[1])
        THEN [kind |-> "other", items |-> << >>]
        ELSE IF Len(text) >= 2 /\ text[1] = LBrace /\ text[Len(text)] = RBrace
                /\ (body = << >> \/ WellFormedItems(body))
        THEN [kind |-> "object", items |-> ItemsOf(body)]
        ELSE [kind |-> "error", items |-> << >>]

\* int(v) of a decoded JSON value: None where Python raises
IntOf(x) ==
    CASE x.t = "int"   -> Some(x.n)
      [] x.t = "float" -> Some(x.n)
      [] x.t = "true"  -> Some(1)
      [] x.t = "false" -> Some(0)
      [] x.t = "str"   -> ParseInt(x.s)
      [] OTHER         -> None

(***************************************************************************)
(* The score store.                                                        *)
(***************************************************************************)
Missing == None

safe_load_scores(f, io_error) ==
    IF f = Missing THEN << >>
    ELSE IF io_error THEN << >>
    ELSE LET data == JsonLoad(f[1])
         IN  IF data.kind # "object" THEN << >>
             ELSE IF \E i \in 1..Len(data.items) : IntOf(data.items[i].v) = None
             THEN << >>
             ELSE [i \in 1..Len(data.items) |->
                      [k |-> data.items[i].k, v |-> IntOf(data.items[i].v)[1]]]

(***************************************************************************)
(* What the player may type at a prompt, and what the score file may hold  *)
(* when the run starts.                                                    *)
(***************************************************************************)
\* at the difficulty menu
MenuTokens ==
    {<<"1">>, <<"2">>, <<"3">>, <<"4">>, <<" ", "4", " ">>, <<"5">>, <<"x">>, << >>}
\* at the custom minimum and maximum prompts
RangeTokens == {<<"1">>, <<"2">>, <<" ", "2">>, <<"x">>, << >>}
\* at the guess prompt
GuessTokens == {<<"0">>, <<"1">>, <<" ", "2">>, <<"x">>}
\* at the play-again prompt
YesNoTokens ==
    {<<"y">>, <<"Y", "e", "s">>, <<"n">>, <<" ", "N", "o">>, <<"1">>, << >>}

Entry(k, v) == [k |-> k, v |-> v]

\* no file, or {"1": 2, "2": 2.5}
InitFiles ==
    {Missing,
     Some(<<LBrace, JStr(<<"1">>), Colon, JInt(2), Comma,
            JStr(<<"2">>), Colon, JFloat(2), RBrace>>)}

(***************************************************************************)
(* difficulty_presets and the key of a custom range.                       *)
(***************************************************************************)
Level(name, lo, hi, limit) ==
    [name |-> name, min |-> lo, max |-> hi, attempts |-> limit]

NoLevel == Level("", 0, 0, None)

\* a table in which Hard allows one attempt more
presets_HardOfSix ==
    <<[key |-> <<"1">>, level |-> Level("Easy", 1, 9, None)],
      [key |-> <<"2">>, level |-> Level("Medium", 1, 20, Some(7))],
      [key |-> <<"3">>, level |-> Level("Hard", 1, 50, Some(6))]>>

presets ==
    <<[key |-> <<"1">>, level |-> Level("Easy", 1, 9, None)],
      [key |-> <<"2">>, level |-> Level("Medium", 1, 20, Some(7))],
      [key |-> <<"3">>, level |-> Level("Hard", 1, 50, Some(5))]>>

PresetKeys == {presets[i].key : i \in 1..Len(presets)}
PresetOf(key) == presets[CHOOSE i \in 1..Len(presets) : presets[i].key = key].level

\* a key that leaves the maximum out
CustomKey_MinOnly(lo, hi) == <<"custom_">> \o IntToStr(lo)

\* f"custom_{min_v}_{max_v}"
CustomKey(lo, hi) == <<"custom_">> \o IntToStr(lo) \o <<"_">> \o IntToStr(hi)

(***************************************************************************)
(* get_valid_number and play_game.                                         *)
(***************************************************************************)
\* a reader that takes the lower bound as exclusive
InRange_Exclusive(value, min_value, max_value) ==
    min_value < value /\ value <= max_value

\* min_value <= value <= max_value
InRange(value, min_value, max_value) == min_value <= value /\ value <= max_value

\* a comparison that takes an equal guess for a low one
Compare_NeverEqual(value, secret_number) ==
    IF value <= secret_number THEN "higher" ELSE "lower"

\* the two hints exchanged
Compare_Swapped(value, secret_number) ==
    IF value < secret_number THEN "lower"
    ELSE IF value > secret_number THEN "higher"
    ELSE "correct"

\* the hint of play_game for a validated guess
Compare(value, secret_number) ==
    IF value < secret_number THEN "higher"
    ELSE IF value > secret_number THEN "lower"
    ELSE "correct"

\* a limit check that is late by one attempt
LimitReached_Late(max_attempts, n) == max_attempts # None /\ n > max_attempts[1]

\* max_attempts is not None and attempts >= max_attempts
LimitReached(max_attempts, n) == max_attempts # None /\ n >= max_attempts[1]

\* no session is running: the locals of a finished session are dead
IdleSession ==
    /\ level' = NoLevel
    /\ difficulty_key' = << >>
    /\ min_v' = 0
    /\ secret' = 0
    /\ attempts' = 0
    /\ guess' = None
    /\ won' = FALSE
    /\ prompts' = 0

\* an exception that nothing catches unwinds run_interactive
Crash(error) ==
    /\ pc' = "crashed"
    /\ out' = <<error>>
    /\ IdleSession
    /\ UNCHANGED <<draws, rng>>

\* rng.randint(a, b): the values it can return; none when a > b, where it
\* raises ValueError
RandInt(a, b) == a..b

(***************************************************************************)
(* The random source.  A generator seeded by the operating system (written *)
(* None) can return any value of the range at every call.  A generator     *)
(* made from a seed is a state that the seed determines; a call returns a  *)
(* value that the state and the range determine, and moves to a state that *)
(* they determine.  The arithmetic stands for the Mersenne Twister of the  *)
(* library, of which only this is used: it is a function.                  *)
(***************************************************************************)
\* random.Random(seed) if seed is not None else random.Random()
Random(seed_value) ==
    IF seed_value = None THEN None ELSE Some((5 * seed_value[1] + 3) % 16)

\* what a call rng.randint(a, b) on the generator g can do, a <= b: the value
\* returned and the state the generator is left in
RandIntOf(g, a, b) ==
    IF g = None THEN {[value |-> v, next |-> None] : v \in RandInt(a, b)}
    ELSE {[value |-> a + (g[1] % (b - a + 1)),
           next |-> Some((5 * g[1] + (b - a + 1)) % 16)]}

\* a session that ignores the source it is given and makes its own
SessionRng_Own(g) == None

\* rng = rng or random.Random(): the source play_game draws from, given g
SessionRng(g) == g

\* play_game up to its first prompt: the secret is drawn, attempts becomes 1
StartGame(lv, key) ==
    IF RandInt(lv.min, lv.max) = {}
    THEN Crash("ValueError")
    ELSE /\ LET g == SessionRng(rng)
            IN  \E drawn \in RandIntOf(g, lv.min, lv.max) :
                    /\ secret' = drawn.value
                    /\ rng' = IF g = rng THEN drawn.next ELSE rng
         /\ draws' = draws + 1
         /\ level' = lv
         /\ difficulty_key' = key
         /\ min_v' = min_v
         /\ attempts' = 1
         /\ guess' = None
         /\ prompts' = 1
         /\ won' = FALSE
         /\ out' = <<"guess_banner">>
         /\ pc' = "guess"

\* get_valid_number rejects the token and asks again
Reject(message) ==
    /\ prompts - attempts < MaxRejects
    /\ prompts' = prompts + 1
    /\ out' = <<message>>
    /\ UNCHANGED <<pc, attempts, guess, won>>

\* play_game returns (attempts, result)
Return(result, messages) ==
    /\ pc' = "played"
    /\ won' = result
    /\ out' = messages
    /\ UNCHANGED <<attempts, prompts>>

\* the loop of play_game goes round: the next attempt's prompt
NextAttempt(message) ==
    /\ level.attempts # None \/ attempts < MaxAttempts
    /\ attempts' = attempts + 1
    /\ prompts' = prompts + 1
    /\ out' = <<message>>
    /\ UNCHANGED <<pc, won>>

\* a loop that checks the attempt limit before it compares the guess
GuessInput_LimitFirst(tok) ==
    /\ pc = "guess"
    /\ LET value == ParseInt(tok)
       IN  IF value = None THEN Reject("invalid_input")
           ELSE IF ~InRange(value[1], level.min, level.max)
           THEN Reject("enter_between")
           ELSE LET hint == Compare(value[1], secret)
                IN  /\ guess' = value
                    /\ IF LimitReached(level.attempts, attempts)
                       THEN Return(FALSE, <<hint, "game_over">>)
                       ELSE IF hint = "correct" THEN Return(TRUE, <<"correct">>)
                       ELSE NextAttempt(hint)
    /\ UNCHANGED <<fixed, file, scores, level, difficulty_key, min_v, secret,
                   draws, rng, saved>>

\* one token read at the guess prompt
GuessInput(tok) ==
    /\ pc = "guess"
    /\ LET value == ParseInt(tok)
       IN  IF value = None THEN Reject("invalid_input")
           ELSE IF ~InRange(value[1], level.min, level.max)
           THEN Reject("enter_between")
           ELSE LET hint == Compare(value[1], secret)
                IN  /\ guess' = value
                    /\ IF hint = "correct" THEN Return(TRUE, <<"correct">>)
                       ELSE IF LimitReached(level.attempts, attempts)
                       THEN Return(FALSE, <<hint, "game_over">>)
                       ELSE NextAttempt(hint)
    /\ UNCHANGED <<fixed, file, scores, level, difficulty_key, min_v, secret,
                   draws, rng, saved>>

Guess == \E tok \in GuessTokens : GuessInput(tok)

(***************************************************************************)
(* safe_save_scores, one step at a time: open("w") truncates the file,     *)
(* json.dump writes chunk after chunk, leaving the with block closes it.   *)
(* An OSError is swallowed; the model raises it where the file is opened   *)
(* (no permission), which leaves the file as it was.                       *)
(***************************************************************************)
\* what follows the call of safe_save_scores: in run_interactive the "new
\* best" message and then the play-again prompt
AfterSave(how) ==
    /\ saved' = how
    /\ IF caller = "run_interactive"
       THEN pc' = "again" /\ out' = <<"new_best">>
       ELSE pc' = "idle" /\ out' = << >>
    /\ IdleSession
    /\ UNCHANGED <<fixed, scores, draws, rng>>

SaveFrame ==
    UNCHANGED <<fixed, scores, level, difficulty_key, min_v, secret, attempts,
                guess, won, prompts, draws, rng>>

SaveOpen ==
    /\ pc = "save_open"
    /\ file' = Some(<< >>)
    /\ pc' = "save_write"
    /\ UNCHANGED <<saved, out>>
    /\ SaveFrame

SaveOpenFails ==
    /\ pc = "save_open"
    /\ AfterSave("failed")
    /\ UNCHANGED file

\* the next chunk; json.dump writes an empty dict as the one chunk "{}"
SaveWrite ==
    /\ pc = "save_write"
    /\ Len(file[1]) < Len(JsonDump(scores))
    /\ file' = IF scores = << >> THEN Some(JsonDump(scores))
               ELSE Some(Append(file[1], JsonDump(scores)[Len(file[1]) + 1]))
    /\ UNCHANGED <<pc, saved, out>>
    /\ SaveFrame

\* a save that returns after the first chunk
SaveClose_Early ==
    /\ pc = "save_write"
    /\ Len(file[1]) >= 1
    /\ AfterSave("ok")
    /\ UNCHANGED file

SaveClose ==
    /\ pc = "save_write"
    /\ Len(file[1]) = Len(JsonDump(scores))
    /\ AfterSave("ok")
    /\ UNCHANGED file

(***************************************************************************)
(* run_interactive.                                                        *)
(***************************************************************************)
\* back to the top of the loop: the menu is printed again
ToMenu(message) ==
    /\ pc' = "menu"
    /\ out' = <<message, "menu">>
    /\ IdleSession
    /\ UNCHANGED <<draws, rng>>

MenuInput(tok) ==
    /\ pc = "menu"
    /\ LET choice == Strip(tok)
       IN  IF choice = <<"4">>
           THEN /\ pc' = "custom_min"
                /\ out' = << >>
                /\ UNCHANGED <<level, difficulty_key, min_v, secret, attempts,
                               guess, won, prompts, draws, rng>>
           ELSE IF choice \in PresetKeys
           THEN StartGame(PresetOf(choice), choice)
           ELSE ToMenu("invalid_choice")
    /\ UNCHANGED <<fixed, file, scores, saved>>

Menu == \E tok \in MenuTokens : MenuInput(tok)

CustomMinInput(tok) ==
    /\ pc = "custom_min"
    /\ LET value == ParseInt(Strip(tok))
       IN  IF value = None THEN Crash("ValueError")
           ELSE /\ min_v' = value[1]
                /\ pc' = "custom_max"
                /\ out' = << >>
                /\ UNCHANGED <<level, difficulty_key, secret, attempts, guess,
                               won, prompts, draws, rng>>
    /\ UNCHANGED <<fixed, file, scores, saved>>

CustomMin == \E tok \in RangeTokens : CustomMinInput(tok)

\* the comparison of the custom bounds, inverted
RangeRejected_Inverted(lo, hi) == lo < hi

\* min_v > max_v
RangeRejected(lo, hi) == lo > hi

CustomMaxInput(tok) ==
    /\ pc = "custom_max"
    /\ LET value == ParseInt(Strip(tok))
       IN  IF value = None THEN Crash("ValueError")
           ELSE IF RangeRejected(min_v, value[1]) THEN ToMenu("min_gt_max")
           ELSE StartGame(Level("Custom", min_v, value[1], None),
                          CustomKey(min_v, value[1]))
    /\ UNCHANGED <<fixed, file, scores, saved>>

CustomMax == \E tok \in RangeTokens : CustomMaxInput(tok)

\* a comparison that lets an equal attempt count through
Improves_OrEqual(prev_best, attempts_used) ==
    prev_best = None \/ attempts_used <= prev_best[1]

\* prev_best is None or attempts_used < int(prev_best)
Improves(prev_best, attempts_used) ==
    prev_best = None \/ attempts_used < prev_best[1]

\* the lines after play_game returns: up to the call of safe_save_scores on
\* an improving win, up to the play-again prompt otherwise
ScoreUpdate ==
    /\ pc = "played"
    /\ IF won
       THEN IF Improves(DictGet(scores, difficulty_key), attempts)
            THEN /\ scores' = DictSet(scores, difficulty_key, attempts)
                 /\ pc' = "save_open"
                 /\ out' = << >>
                 /\ secret' = 0
                 /\ guess' = None
                 /\ prompts' = 0
                 /\ UNCHANGED <<level, difficulty_key, min_v, attempts, won>>
            ELSE /\ pc' = "again"
                 /\ out' = <<"your_attempts">>
                 /\ IdleSession
                 /\ UNCHANGED scores
       ELSE /\ pc' = "again"
            /\ out' = <<"try_again">>
            /\ IdleSession
            /\ UNCHANGED scores
    /\ UNCHANGED <<fixed, file, draws, rng, saved>>

\* a farewell that never shows the leaderboard
Farewell_Bare == <<"goodbye">>

\* the farewell, and the leaderboard when there is a score
Farewell == <<"goodbye">> \o (IF scores # << >> THEN <<"best_scores">> ELSE << >>)

\* one token read by get_yes_no at the play-again prompt
AgainInput(tok) ==
    /\ pc = "again"
    /\ LET choice == StrLower(Strip(tok))
       IN  IF choice \in {<<"y">>, <<"y", "e", "s">>}
           THEN /\ draws < MaxSessions
                /\ ToMenu("title")
                /\ saved' = "none"
           ELSE IF choice \in {<<"n">>, <<"n", "o">>}
           THEN /\ pc' = "done"
                /\ out' = Farewell
                /\ UNCHANGED <<level, difficulty_key, min_v, secret, attempts,
                               guess, won, prompts, draws, rng, saved>>
           ELSE /\ out' = <<"yes_no_error">>
                /\ UNCHANGED <<pc, level, difficulty_key, min_v, secret,
                               attempts, guess, won, prompts, draws, rng, saved>>
    /\ UNCHANGED <<fixed, file, scores>>

Again == \E tok \in YesNoTokens : AgainInput(tok)

\* where a KeyboardInterrupt can reach the try block of run_interactive
Interruptible ==
    {"menu", "custom_min", "custom_max", "guess", "played", "save_open",
     "save_write", "again"}

\* the exception unwinds to the handler of run_interactive, which prints the
\* goodbye; a file being written is closed as the with block is left
Interrupt ==
    /\ pc \in Interruptible
    /\ pc' = "interrupted"
    /\ out' = <<"interrupted">>
    /\ IdleSession
    /\ UNCHANGED <<fixed, file, scores, draws, rng, saved>>

\* the seeds a run is given: none, or an integer
Seeds == {None} \cup {Some(n) : n \in 0..MaxSeed}

Init ==
    /\ caller = "run_interactive"
    /\ file \in InitFiles
    /\ scores = safe_load_scores(file, FALSE)
    /\ pc = "menu"
    /\ level = NoLevel
    /\ difficulty_key = << >>
    /\ min_v = 0
    /\ secret = 0
    /\ attempts = 0
    /\ guess = None
    /\ won = FALSE
    /\ prompts = 0
    /\ draws = 0
    /\ saved = "none"
    /\ out = <<"title", "menu">>
    /\ seed \in Seeds
    /\ rng = Random(seed)
    /\ minimal = None
    /\ player = None

Next ==
    \/ Menu
    \/ CustomMin
    \/ CustomMax
    \/ Guess
    \/ ScoreUpdate
    \/ SaveOpen
    \/ SaveOpenFails
    \/ SaveWrite
    \/ SaveClose
    \/ Again
    \/ Interrupt

Spec == Init /\ [][Next]_vars

\* the steps run_interactive takes on its own, without waiting for a token:
\* once play_game has returned, the score update and the save run on
Fairness ==
    /\ WF_vars(ScoreUpdate)
    /\ WF_vars(SaveOpen \/ SaveOpenFails)
    /\ WF_vars(SaveWrite)
    /\ WF_vars(SaveClose)

SpecFair == Spec /\ Fairness

(***************************************************************************)
(* play_game called directly, as the tests call it: any range lo <= hi,    *)
(* any attempt limit or none, any secret of the range.  The behaviour      *)
(* starts at the first guess prompt.                                       *)
(***************************************************************************)
DirectLevels ==
    {Level("Direct", lo, hi, limit) :
        lo \in 0..MaxRange, hi \in 0..MaxRange,
        limit \in {None} \cup {Some(n) : n \in 1..MaxLimit}}

InitGame ==
    /\ caller = "play_game"
    /\ file = Missing
    /\ scores = << >>
    /\ pc = "guess"
    /\ level \in {lv \in DirectLevels : lv.min <= lv.max}
    /\ difficulty_key = << >>
    /\ min_v = 0
    /\ secret \in level.min..level.max
    /\ attempts = 1
    /\ guess = None
    /\ won = FALSE
    /\ prompts = 1
    /\ draws = 1
    /\ saved = "none"
    /\ out = <<"guess_banner">>
    /\ seed = None
    /\ rng = None
    /\ minimal = None
    /\ player = None

NextGame == Guess

SpecGame == InitGame /\ [][NextGame]_vars

(***************************************************************************)
(* safe_load_scores and safe_save_scores called directly, as the tests     *)
(* call them, on a file of any content.                                    *)
(***************************************************************************)
StoreFiles ==
    {Missing,
     Some(<< >>),
     Some(<<LBrace, RBrace>>),
     Some(JsonDump(<<Entry(<<"1">>, 3), Entry(<<"2">>, 5)>>)),
     Some(JsonDump(<<Entry(<<"9">>, 4)>>)),
     Some(<<LBrace, JStr(<<"1">>), Colon, JInt(3), Comma>>),
     Some(<<JList>>),
     Some(<<JInt(7)>>),
     Some(<<LBrace, JStr(<<"1">>), Colon, JStr(<<"3">>), RBrace>>),
     Some(<<LBrace, JStr(<<"1">>), Colon, JStr(<<"x">>), RBrace>>),
     Some(<<LBrace, JStr(<<"2">>), Colon, JFloat(2), RBrace>>),
     Some(<<LBrace, JStr(<<"1">>), Colon, JInt(3), Comma,
            JStr(<<"3">>), Colon, JTrue, RBrace>>),
     Some(<<LBrace, JStr(<<"1">>), Colon, JNull, RBrace>>),
     Some(<<LBrace, JStr(<<"1">>), Colon, JInt(3), Comma,
            JStr(<<"1">>), Colon, JInt(1), RBrace>>),
     Some(<<LBrace, JStr(<<"3">>), Colon, JInt(0), RBrace>>)}

StoreRecords ==
    {<< >>,
     <<Entry(<<"1">>, 3), Entry(<<"2">>, 5)>>,
     <<Entry(<<"3">>, 0)>>,
     <<Entry(CustomKey(1, 2), 1), Entry(<<"1">>, 12)>>}

InitStore ==
    /\ caller = "store"
    /\ file \in StoreFiles
    /\ scores = << >>
    /\ pc = "idle"
    /\ level = NoLevel
    /\ difficulty_key = << >>
    /\ min_v = 0
    /\ secret = 0
    /\ attempts = 0
    /\ guess = None
    /\ won = FALSE
    /\ prompts = 0
    /\ draws = 0
    /\ saved = "none"
    /\ out = << >>
    /\ seed = None
    /\ rng = None
    /\ minimal = None
    /\ player = None

\* scores = safe_load_scores(path)
LoadCall(io_error) ==
    /\ pc = "idle"
    /\ scores' = safe_load_scores(file, io_error)
    /\ pc' = "loaded"
    /\ UNCHANGED <<fixed, file, level, difficulty_key, min_v, secret, attempts,
                   guess, won, prompts, draws, rng, saved, out>>

Load == \E io_error \in BOOLEAN : LoadCall(io_error)

\* safe_save_scores(record, path) is called
SaveCall(record) ==
    /\ pc \in {"idle", "loaded"}
    /\ scores' = record
    /\ pc' = "save_open"
    /\ saved' = "none"
    /\ UNCHANGED <<fixed, file, level, difficulty_key, min_v, secret, attempts,
                   guess, won, prompts, draws, rng, out>>

Save == \E record \in StoreRecords : SaveCall(record)

\* the command lines main is run with: --reset-scores or not, --seed or not
Args == [reset_scores : BOOLEAN, seed : Seeds]

\* a reset that leaves the file where it is
ResetFile_Kept(f, io_error) == f

\* if args.score_file.exists(): args.score_file.unlink(); an OSError of
\* either call leaves the file as it was
ResetFile(f, io_error) == IF io_error THEN f ELSE Missing

\* main(), a new process that has saved nothing yet: with --reset-scores the
\* file is removed, one message is printed and main returns; without it main
\* runs run_interactive, here up to the menu
MainCall(args, io_error) ==
    /\ pc \in {"idle", "loaded"}
    /\ IF args.reset_scores
       THEN /\ file' = ResetFile(file, io_error)
            /\ out' = IF io_error THEN <<"reset_failed">> ELSE <<"scores_reset">>
            /\ pc' = "idle"
            /\ UNCHANGED <<scores, seed, rng>>
       ELSE /\ seed' = args.seed
            /\ rng' = Random(args.seed)
            /\ scores' = safe_load_scores(file, io_error)
            /\ pc' = "menu"
            /\ out' = <<"title", "menu">>
            /\ UNCHANGED file
    /\ saved' = "none"
    /\ UNCHANGED <<caller, minimal, player, level, difficulty_key, min_v, secret,
                   attempts, guess, won, prompts, draws>>

Main == \E args \in Args, io_error \in BOOLEAN : MainCall(args, io_error)

NextStore ==
    \/ Load
    \/ Save
    \/ Main
    \/ SaveOpen
    \/ SaveOpenFails
    \/ SaveWrite
    \/ SaveClose

SpecStore == InitStore /\ [][NextStore]_vars

(***************************************************************************)
(* Guess-the-Number_Game.py, the minimal script, run beside play_game on   *)
(* the range 1-9 with no attempt limit: both hold the same secret and read *)
(* the same tokens, the script first and play_game after it.               *)
(***************************************************************************)
\* everything but the script and the player
game == <<caller, pc, file, scores, level, difficulty_key, min_v, secret,
          attempts, guess, won, prompts, draws, saved, out, seed, rng>>

\* the tokens play_game has read at its guess prompt
Consumed == IF pc = "played" THEN prompts ELSE prompts - 1

\* the script before its loop: randNo drawn, a = -1, guesses = 0
Script(number) ==
    [randNo |-> number, a |-> -1, guesses |-> 0, reads |-> 0, raw |-> << >>,
     out |-> <<"banner">>]

\* one round of the loop of the script on the token tok: a = int(input(...)),
\* guesses += 1, the hint; a ValueError prints the message and counts nothing;
\* the loop left, the closing line is printed
Scripted(sc, tok) ==
    LET value == ParseInt(tok)
    IN  IF value = None
        THEN [sc EXCEPT !.reads = @ + 1, !.raw = tok, !.out = <<"wrong_number">>]
        ELSE [sc EXCEPT !.a = value[1], !.guesses = @ + 1, !.reads = @ + 1,
                        !.raw = tok,
                        !.out = IF value[1] > sc.randNo THEN <<"lower">>
                                ELSE IF value[1] < sc.randNo THEN <<"higher">>
                                ELSE <<"guessed">>]

\* while (a != randNo): the script reads the next token
ScriptInput(tok) ==
    /\ minimal # None
    /\ minimal[1].a # minimal[1].randNo
    /\ minimal[1].reads = Consumed
    /\ minimal' = Some(Scripted(minimal[1], tok))
    /\ UNCHANGED <<game, player>>

ScriptReads == \E tok \in GuessTokens : ScriptInput(tok)

\* play_game reads the token the script has just read
GameReads ==
    /\ minimal # None
    /\ minimal[1].reads = Consumed + 1
    /\ GuessInput(minimal[1].raw)

InitMinimal ==
    /\ caller = "play_game"
    /\ file = Missing
    /\ scores = << >>
    /\ pc = "guess"
    /\ level = PresetOf(<<"1">>)
    /\ difficulty_key = << >>
    /\ min_v = 0
    /\ secret \in RandInt(1, 9)
    /\ attempts = 1
    /\ guess = None
    /\ won = FALSE
    /\ prompts = 1
    /\ draws = 1
    /\ saved = "none"
    /\ out = <<"guess_banner">>
    /\ seed = None
    /\ rng = None
    /\ minimal = Some(Script(secret))
    /\ player = None

NextMinimal ==
    \/ ScriptReads
    \/ GameReads

SpecMinimal == InitMinimal /\ [][NextMinimal]_vars

(***************************************************************************)
(* play_game on a preset that has an attempt limit, fed by a player who    *)
(* searches: the player holds the interval the hints seen so far leave,    *)
(* types its midpoint at every prompt and narrows it by the hint.          *)
(***************************************************************************)
\* the presets whose attempts is not None
LimitedLevels ==
    {presets[i].level : i \in {j \in 1..Len(presets) :
                                  presets[j].level.attempts # None}}

\* the middle of lo..hi, the lower one of two
Midpoint(lo, hi) == (lo + hi) \div 2

\* the prompt of an attempt whose predecessors' hints the player has all
\* seen: the midpoint is typed
PlayerGuesses ==
    /\ player # None
    /\ player[1].seen = attempts - 1
    /\ GuessInput(IntToStr(Midpoint(player[1].lo, player[1].hi)))

\* the player reads the hint just printed and narrows the interval
PlayerSees ==
    /\ player # None
    /\ pc = "guess"
    /\ player[1].seen = attempts - 2
    /\ player' = Some([lo |-> IF out = <<"higher">> THEN guess[1] + 1
                              ELSE player[1].lo,
                       hi |-> IF out = <<"lower">> THEN guess[1] - 1
                              ELSE player[1].hi,
                       seen |-> player[1].seen + 1])
    /\ UNCHANGED <<game, minimal>>

InitSearch ==
    /\ caller = "play_game"
    /\ file = Missing
    /\ scores = << >>
    /\ pc = "guess"
    /\ level \in LimitedLevels
    /\ difficulty_key = << >>
    /\ min_v = 0
    /\ secret \in RandInt(level.min, level.max)
    /\ attempts = 1
    /\ guess = None
    /\ won = FALSE
    /\ prompts = 1
    /\ draws = 1
    /\ saved = "none"
    /\ out = <<"guess_banner">>
    /\ seed = None
    /\ rng = None
    /\ minimal = None
    /\ player = Some([lo |-> level.min, hi |-> level.max, seen |-> 0])

NextSearch ==
    \/ PlayerGuesses
    \/ PlayerSees

SpecSearch == InitSearch /\ [][NextSearch]_vars

(***************************************************************************)
(* The claims.                                                             *)
(***************************************************************************)

\* C1 (as claimed): whatever is typed at the prompts of run_interactive, the
\* run never ends with an uncaught error.
C1_NoUncaughtError == pc # "crashed"

\* the token is an integer of the session's range
ValidGuess(tok) ==
    /\ ParseInt(tok) # None
    /\ level.min <= ParseInt(tok)[1]
    /\ ParseInt(tok)[1] <= level.max

\* C2: get_valid_number returns the value of the first token that is an
\* integer within [min, max]: a token that is one is returned as the guess; a
\* token that is not is consumed with exactly one error message and a new
\* prompt, and leaves the guess and the attempt counter of play_game as they
\* were; the value returned is always within [min, max].
C2_FirstValidTokenReturned ==
    [][\A tok \in GuessTokens :
          GuessInput(tok) =>
             /\ IF ValidGuess(tok)
                THEN guess' = ParseInt(tok)
                ELSE /\ UNCHANGED <<guess, attempts, pc, won>>
                     /\ prompts' = prompts + 1
                     /\ Len(out') = 1
                     /\ out'[1] \in {"invalid_input", "enter_between"}
             /\ guess' # None =>
                   level.min <= guess'[1] /\ guess'[1] <= level.max]_vars

\* C2 witness: a token was rejected and the first valid one then won, on
\* attempt 1 and at the lower end of the range.
C2_Witness ==
    /\ pc = "played"
    /\ won
    /\ attempts = 1
    /\ prompts = 2
    /\ guess = Some(level.min)
    /\ level.min < level.max

\* C3: a session whose first validated guess equals the secret returns
\* won = true with attempts = 1, whatever the range and the attempt limit; in a
\* range of one value the first validated guess always does.
C3_FirstGuessWins ==
    /\ (attempts = 1 /\ guess = Some(secret)) => (pc = "played" /\ won)
    /\ (level.min = level.max /\ guess # None) =>
          (pc = "played" /\ won /\ attempts = 1)

\* C3 witness: a win on attempt 1 under an attempt limit, in a range of
\* several values.
C3_Witness ==
    /\ pc = "played"
    /\ won
    /\ attempts = 1
    /\ guess = Some(secret)
    /\ level.attempts # None
    /\ level.min < level.max

\* C4 (as claimed): with an attempt limit N, a session that is lost returns
\* attempts = N, and the session never issues more than N guess prompts.
C4_AtMostLimitPrompts ==
    /\ (pc = "played" /\ ~won) =>
          (level.attempts # None /\ attempts = level.attempts[1])
    /\ level.attempts # None => prompts <= level.attempts[1]

\* C4 (amended): with an attempt limit N the attempt counter never exceeds N,
\* a session returns won = false only with attempts = N, and every attempt
\* has had its prompt: the prompts are never fewer than the attempts (a
\* rejected token is prompted for again, so they can be more than N).
C4_AtMostLimitAttempts ==
    /\ level.attempts # None => attempts <= level.attempts[1]
    /\ (pc = "played" /\ ~won) =>
          (level.attempts # None /\ attempts = level.attempts[1])
    /\ prompts >= attempts

\* C4 witness: a lost session that took N validated guesses and more than N
\* prompts.
C4_Witness ==
    /\ pc = "played"
    /\ ~won
    /\ level.attempts # None
    /\ attempts = level.attempts[1]
    /\ attempts >= 2
    /\ prompts > attempts

\* the session that just returned is a win with fewer attempts than the
\* stored best of its key, or a win under a key with no stored best
ImprovingWin ==
    /\ pc = "played"
    /\ won
    /\ \/ DictGet(scores, difficulty_key) = None
       \/ attempts < DictGet(scores, difficulty_key)[1]

\* C5: the in-memory record changes only on an improving win (and then only
\* the session's key, to the session's attempts); a loss or a non-improving
\* win leaves the record and the file unchanged and calls no save; the file
\* changes only inside a save; no stored best ever increases or disappears.
C5_RecordChangesOnlyOnImprovingWin ==
    [][/\ scores' # scores =>
             (ImprovingWin /\ scores' = DictSet(scores, difficulty_key, attempts))
       /\ (pc = "played" /\ ~ImprovingWin) =>
             (scores' = scores /\ file' = file /\ pc' \in {"again", "interrupted"})
       /\ file' # file => pc \in {"save_open", "save_write"}
       /\ pc' = "save_open" => ImprovingWin
       /\ \A i \in 1..Len(scores) :
             /\ DictGet(scores', scores[i].k) # None
             /\ DictGet(scores', scores[i].k)[1] <= scores[i].v]_vars

\* C5 witness: the play-again prompt after a win that did not improve the
\* stored best.
C5_Witness ==
    /\ pc = "again"
    /\ out = <<"your_attempts">>
    /\ scores # << >>

\* the file holds a whole JSON object
CompleteRecord(f) == f # Missing /\ JsonLoad(f[1]).kind = "object"

\* C6 (as claimed): after an interrupt the score file holds a complete
\* record (or does not exist, as before the run), never an empty or partly
\* written text.
C6_InterruptLeavesCompleteFile ==
    pc = "interrupted" => (file = Missing \/ CompleteRecord(file))

\* loading the file is a failure in the claim's sense: no file, no JSON
\* object, or a value that is not an integer literal
LoadMustFail(f) ==
    \/ f = Missing
    \/ ~CompleteRecord(f)
    \/ \E i \in 1..Len(f[1]) : f[1][i].t \in
          {"float", "nan", "true", "false", "null", "list"}
    \/ \E i \in 2..Len(f[1]) : f[1][i].t = "str" /\ f[1][i - 1] = Colon

\* C7 (as claimed): safe_load_scores returns the empty record whenever the
\* file is missing, is no JSON object, or holds a value that is not an integer.
C7_EmptyOnAnyFailure ==
    (pc = "loaded" /\ LoadMustFail(file)) => scores = << >>

BackAtMenu(message) ==
    /\ pc' = "menu"
    /\ out' = <<message, "menu">>
    /\ secret' = 0
    /\ prompts' = 0
    /\ UNCHANGED <<draws, scores, file>>

\* C9: a selection other than 1/2/3/4, and a custom range with minimum >
\* maximum, return to the menu with a message: no secret is drawn, no guess
\* is asked for, the record and the file are unchanged; no session ever
\* starts with minimum > maximum.
C9_RejectedSelectionStartsNoSession ==
    [][/\ \A tok \in MenuTokens :
             (MenuInput(tok)
                /\ Strip(tok) \notin {<<"1">>, <<"2">>, <<"3">>, <<"4">>})
             => BackAtMenu("invalid_choice")
       /\ \A tok \in RangeTokens :
             (CustomMaxInput(tok) /\ ParseInt(Strip(tok)) # None
                /\ min_v > ParseInt(Strip(tok))[1])
             => BackAtMenu("min_gt_max")
       /\ pc' = "guess" => level'.min <= level'.max]_vars

\* C9 witness: back at the menu after a custom range with minimum > maximum.
C9_Witness ==
    /\ pc = "menu"
    /\ out = <<"min_gt_max", "menu">>
    /\ draws = 0

HintOf(messages) ==
    IF \E i \in 1..Len(messages) : messages[i] \in {"higher", "lower"}
    THEN Some(messages[CHOOSE i \in 1..Len(messages) :
                          messages[i] \in {"higher", "lower"}])
    ELSE None

\* C12 (as claimed): the minimal script and play_game on 1-9 without a
\* limit, given the same secret and the same tokens, agree after every token:
\* the same hint or none, finished or not alike, and at the win the same
\* count of attempts.
C12_ScriptMatchesPlayGame ==
    (minimal # None /\ minimal[1].reads = Consumed) =>
       /\ minimal[1].reads >= 1 => HintOf(minimal[1].out) = HintOf(out)
       /\ (minimal[1].a = minimal[1].randNo) <=> (pc = "played")
       /\ pc = "played" => minimal[1].guesses = attempts

\* C13: a run of main with --reset-scores removes the score file if there is
\* one (no file stays no file), prints the confirmation, or the failure
\* message when the removal raised, and returns: no menu, no session, no
\* draw, the record not loaded, whether or not the removal succeeded; a load
\* that follows a confirmed reset returns the empty record.
C13_ResetRemovesAndReturns ==
    [][/\ \A args \in Args, io_error \in BOOLEAN :
             (MainCall(args, io_error) /\ args.reset_scores) =>
                /\ file' = IF io_error THEN file ELSE Missing
                /\ out' = IF io_error THEN <<"reset_failed">>
                          ELSE <<"scores_reset">>
                /\ pc' = "idle"
                /\ UNCHANGED <<scores, draws, level, secret, attempts, prompts>>
       /\ \A io_error \in BOOLEAN :
             (LoadCall(io_error) /\ out = <<"scores_reset">>) =>
                scores' = << >>]_vars

\* C13 witness: a load after a confirmed reset returned the empty record.
C13_Witness ==
    /\ pc = "loaded"
    /\ out = <<"scores_reset">>
    /\ file = Missing
    /\ scores = << >>

\* C14: a session of play_game has exactly one outcome.  Every step is taken
\* at the guess prompt, so nothing is printed or asked for once play_game has
\* returned.  A validated guess either returns, the attempt counter and the
\* prompts as they were and the outcome message last, or goes round with the
\* counter one higher, and then it was not the secret; a rejected token leaves
\* the counter alone; the counter is 1 before the first validated guess, so
\* at the return it is the number of validated guesses read.  At the return
\* won is true exactly when the last validated guess is the secret: a guess
\* that is the secret always returns a win, on attempt N too.  The counter is
\* at least 1 and never above an attempt limit N.
C14_ExactlyOneOutcome ==
    [][/\ pc = "guess"
       /\ attempts >= 1
       /\ guess = None => attempts = 1
       /\ level.attempts # None => attempts' <= level.attempts[1]
       /\ \A tok \in GuessTokens :
             GuessInput(tok) =>
                IF ValidGuess(tok)
                THEN /\ guess' = ParseInt(tok)
                     /\ \/ /\ pc' = "guess"
                           /\ attempts' = attempts + 1
                           /\ guess' # Some(secret)
                        \/ /\ pc' = "played"
                           /\ attempts' = attempts
                           /\ prompts' = prompts
                           /\ won' <=> (guess' = Some(secret))
                           /\ out'[Len(out')] =
                                 (IF won' THEN "correct" ELSE "game_over")
                     /\ guess' = Some(secret) => (pc' = "played" /\ won')
                ELSE pc' = "guess" /\ attempts' = attempts /\ guess' = guess]_vars

\* C14 witness: a session with the limit N >= 2 won on attempt exactly N.
C14_Witness ==
    /\ pc = "played"
    /\ won
    /\ attempts >= 2
    /\ level.attempts = Some(attempts)

\* the responses of play_game to a validated guess among the messages
Responses(messages) ==
    {i \in 1..Len(messages) : messages[i] \in {"higher", "lower", "correct"}}

\* C15: to every validated guess play_game gives exactly one response: the
\* hint "higher" exactly when the guess is below the secret, the hint "lower"
\* exactly when it is above, the success message exactly when it is the
\* secret; a rejected token gets none of the three; and the secret does not
\* change during the session, so that it satisfies every hint given so far.
C15_HintsTruthful ==
    [][/\ secret' = secret
       /\ \A tok \in GuessTokens :
             GuessInput(tok) =>
                IF ValidGuess(tok)
                THEN LET g == ParseInt(tok)[1]
                         r == Responses(out')
                     IN  /\ Cardinality(r) = 1
                         /\ (\E i \in r : out'[i] = "higher") <=> g < secret
                         /\ (\E i \in r : out'[i] = "lower") <=> g > secret
                         /\ (\E i \in r : out'[i] = "correct") <=> g = secret
                ELSE Responses(out') = {}]_vars

\* C15 witness: the third attempt is asked for after a truthful "lower".
C15_Witness ==
    /\ pc = "guess"
    /\ attempts = 3
    /\ out = <<"lower">>
    /\ guess # None
    /\ guess[1] > secret

\* bounds a custom range can be given: small ones, a negative one, and the
\* bounds of the presets
KeyBounds ==
    (-1..MaxRange) \cup {presets[i].level.min : i \in 1..Len(presets)}
                  \cup {presets[i].level.max : i \in 1..Len(presets)}

\* C16: a session started from a preset is keyed by the preset's menu key
\* "1", "2" or "3", a session in a custom range by custom_<min>_<max>; no
\* other pair of bounds gives the key of the session, no pair of bounds gives
\* a preset key (the bounds of a preset neither), and, read at the first
\* custom prompt of a run, different pairs give different keys; the record
\* changes only after a session returned, and then no key other than the
\* session's gets, loses or changes its stored best.
C16_KeysIndependent ==
    [][/\ (pc' = "guess" /\ pc # "guess") =>
             IF level'.name = "Custom"
             THEN /\ difficulty_key' = <<"custom_">> \o IntToStr(level'.min)
                                          \o <<"_">> \o IntToStr(level'.max)
                  /\ difficulty_key' \notin PresetKeys
                  /\ \A lo \in KeyBounds, hi \in KeyBounds :
                        /\ CustomKey(lo, hi) \notin PresetKeys
                        /\ CustomKey(lo, hi) = difficulty_key' =>
                              (lo = level'.min /\ hi = level'.max)
             ELSE /\ difficulty_key' \in PresetKeys
                  /\ level' = PresetOf(difficulty_key')
       /\ (pc = "custom_min" /\ draws = 0) =>
             \A a \in KeyBounds, b \in KeyBounds, c \in KeyBounds,
                d \in KeyBounds :
                CustomKey(a, b) = CustomKey(c, d) => (a = c /\ b = d)
       /\ scores' # scores => pc = "played"
       /\ \A key \in Keys(scores) \cup Keys(scores') :
             key # difficulty_key => DictGet(scores', key) = DictGet(scores, key)]_vars

\* C16 witness: a win in the custom range 1-2 is stored under its own key,
\* beside the bests of Easy and Medium that the file held.
C16_Witness ==
    /\ pc = "again"
    /\ DictGet(scores, CustomKey(1, 2)) = Some(1)
    /\ DictGet(scores, <<"1">>) = Some(2)
    /\ DictGet(scores, <<"2">>) = Some(2)

\* the answers get_yes_no takes for yes and for no
YesAnswers == {<<"y">>, <<"y", "e", "s">>}
NoAnswers == {<<"n">>, <<"n", "o">>}

C18_ValuesPositive ==
    pc = "menu" => \A i \in 1..Len(scores) : scores[i].v >= 1

\* the guesses a midpoint search of lo..hi makes until it types the number
RECURSIVE SearchDepth(_, _, _)
SearchDepth(lo, hi, number) ==
    LET mid == (lo + hi) \div 2
    IN  IF number = mid THEN 1
        ELSE IF number < mid THEN 1 + SearchDepth(lo, mid - 1, number)
        ELSE 1 + SearchDepth(mid + 1, hi, number)

\* C19 (as claimed): on Medium and on Hard the searching player wins,
\* whatever the secret.
C19_SearchAlwaysWins == (player # None /\ pc = "played") => won

\* C19 (amended): the interval of the searching player always holds the
\* secret; the session is won exactly when the midpoint search of the range
\* reaches the secret within the attempt limit, and then on that attempt;
\* on Medium (1-20, 7 attempts) that is every secret, within 5 attempts; on
\* Hard (1-50, 5 attempts) it is the secrets the search reaches in 5 guesses
\* or fewer, and the others are lost on attempt 5.
C19_SearchWinsWithinDepth ==
    player # None =>
       /\ player[1].lo <= secret /\ secret <= player[1].hi
       /\ pc = "played" =>
             LET depth == SearchDepth(level.min, level.max, secret)
             IN  /\ won <=> depth <= level.attempts[1]
                 /\ won => attempts = depth
                 /\ level.name = "Medium" => (won /\ attempts <= 5)
                 /\ level.name = "Hard" => (won <=> depth <= 5)
                 /\ ~won => (level.name = "Hard" /\ attempts = 5)

\* C19 witness: on Hard the search reached the secret on attempt 5, the
\* last one allowed.
C19_Witness ==
    /\ player # None
    /\ pc = "played"
    /\ won
    /\ level.name = "Hard"
    /\ attempts = 5

====
